---- MODULE Spec2Model ----
(***************************************************************************)
(* Model of rocket-raw-response (src/src/lib.rs): the five constructors of *)
(* RawResponsePro, the Responder implementation respond_to that turns a    *)
(* payload into headers and a body, and the caller of                      *)
(* examples/view_image.rs.                                                 *)
(*                                                                         *)
(* Text is a sequence of one-character strings, so that extension lookup   *)
(* and percent-encoding are computed character by character; a header      *)
(* value is the TLA+ string obtained by concatenating the pieces.          *)
(* Option<T> is a sequence: None is <<>>, Some(x) is <<x>>.                *)
(***************************************************************************)
EXTENDS Integers, Sequences, FiniteSets, TLC

VARIABLES pc, req, result, payload, fsSize, openSize, resp, wire, httpStatus

vars == <<pc, req, result, payload, fsSize, openSize, resp, wire, httpStatus>>

(* ------------------------------ bounds --------------------------------- *)

\* longest in-memory buffer / stream contents / upload length
MaxLen == 2
\* largest size of a file on disk
MaxSize == 2

(* ------------------------------ Option --------------------------------- *)

None == <<>>
Some(x) == <<x>>
IsSome(o) == o # <<>>
Unwrap(o) == o[1]

(* ------------------------------- text ---------------------------------- *)

\* a byte that is not valid UTF-8 (only OS paths can hold one)
BadByte == "\\xFF"
\* U+FFFD, what String::from_utf8_lossy puts in place of an invalid byte
Replacement == "\\uFFFD"

RECURSIVE Flatten(_)
Flatten(s) == IF s = <<>> THEN "" ELSE Head(s) \o Flatten(Tail(s))

\* u64::to_string / usize::to_string
Digit(d) == CASE d = 0 -> "0" [] d = 1 -> "1" [] d = 2 -> "2" [] d = 3 -> "3"
              [] d = 4 -> "4" [] d = 5 -> "5" [] d = 6 -> "6" [] d = 7 -> "7"
              [] d = 8 -> "8" [] d = 9 -> "9"
RECURSIVE to_string(_)
to_string(n) == IF n < 10 THEN Digit(n) ELSE to_string(n \div 10) \o Digit(n % 10)

\* OsStr::to_str: fails on invalid UTF-8
to_str(s) == IF \E i \in 1..Len(s) : s[i] = BadByte THEN None ELSE Some(s)

\* OsStr::to_string_lossy
to_string_lossy(s) == [i \in 1..Len(s) |-> IF s[i] = BadByte THEN Replacement ELSE s[i]]

\* char::to_ascii_lowercase on the letters the fixture uses
to_lowercase(c) == CASE c = "P" -> "p" [] c = "D" -> "d" [] c = "F" -> "f"
                     [] c = "J" -> "j" [] c = "G" -> "g" [] OTHER -> c

(* --------------------------- percent-encoding -------------------------- *)

\* the characters url_escape's COMPONENT set leaves alone, among those used
Unreserved == {"a", "b", "c", "d", "e", "f", "g", "h", "i", "j", "k", "l", "m",
               "n", "o", "p", "q", "r", "s", "t", "u", "v", "w", "x", "y", "z",
               "A", "D", "E", "F", "G", "J", "M", "P", "R",
               "0", "1", "2", "-", "_", ".", "!", "~", "*", "'", "(", ")"}

\* %XX of each UTF-8 byte of a character outside the unreserved set
Utf8Escape(c) == CASE c = " " -> "%20"
                   [] c = ";" -> "%3B"
                   [] c = "/" -> "%2F"
                   [] c = "%" -> "%25"
                   [] c = "貓" -> "%E8%B2%93"
                   [] c = Replacement -> "%EF%BF%BD"

encode_char(c) == IF c \in Unreserved THEN c ELSE Utf8Escape(c)

\* url_escape::encode_component_to_string(name, &mut v), the appended part
encode_component(name) == Flatten([i \in 1..Len(name) |-> encode_char(name[i])])

(* ------------------------------- paths --------------------------------- *)

\* a path is a sequence of components; a component is text
RootDir == <<"/">>
ParentDir == <<".", ".">>

\* Path::file_name: the final component when it is a normal one
file_name_of(path) ==
    IF path = <<>> THEN None
    ELSE LET last == path[Len(path)]
         IN IF last = RootDir \/ last = ParentDir THEN None ELSE Some(last)

\* index of the last "." of a name, 0 when there is none
LastDot(name) ==
    LET dots == {i \in 1..Len(name) : name[i] = "."}
    IN IF dots = {} THEN 0 ELSE CHOOSE i \in dots : \A j \in dots : j <= i

\* Path::extension on a single file name: the part after the last ".", unless
\* there is no "." or the only one leads the name
extension_of_name(name) ==
    IF LastDot(name) <= 1 THEN None
    ELSE Some(SubSeq(name, LastDot(name) + 1, Len(name)))

\* Path::extension
extension(path) ==
    IF IsSome(file_name_of(path)) THEN extension_of_name(Unwrap(file_name_of(path)))
    ELSE None

(* ------------------------------ mime_guess ----------------------------- *)

OctetStream == "application/octet-stream"

\* mime_guess::from_ext(ext).first_or_octet_stream().to_string()
from_ext_first_or_octet_stream(ext) ==
    LET e == Flatten([i \in 1..Len(ext) |-> to_lowercase(ext[i])])
    IN CASE e = "pdf" -> "application/pdf"
         [] e = "png" -> "image/png"
         [] e = "jpg" -> "image/jpeg"
         [] e = "txt" -> "text/plain"
         [] OTHER -> OctetStream

(* ------------------------------ fixture -------------------------------- *)

\* names, character by character
n_examples == <<"e", "x", "a", "m", "p", "l", "e", "s">>
n_images == <<"i", "m", "a", "g", "e", "s">>
n_image_jpg == <<"i", "m", "a", "g", "e", "(", "貓", ")", ".", "j", "p", "g">>
n_a == <<"a">>
n_b == <<"b">>
n_report_pdf == <<"r", "e", "p", "o", "r", "t", ".", "p", "d", "f">>
n_a_txt == <<"a", ".", "t", "x", "t">>
n_README == <<"R", "E", "A", "D", "M", "E">>
n_bashrc == <<".", "b", "a", "s", "h", "r", "c">>
n_data_zzz == <<"d", "a", "t", "a", ".", "z", "z", "z">>
n_M_PDF == <<"M", ".", "P", "D", "F">>
n_log_bad == <<"l", "o", "g", ".", BadByte>>
n_nope_png == <<"n", "o", "p", "e", ".", "p", "n", "g">>
n_secret_txt == <<"s", "e", "c", "r", "e", "t", ".", "t", "x", "t">>
n_empty == <<>>
n_x_pdf == <<"x", ".", "p", "d", "f">>
n_photo_png == <<"p", "h", "o", "t", "o", ".", "p", "n", "g">>
n_tricky == <<"a", " ", "b", ";", "貓", "%", "/", "c">>
n_upload == <<"u", "p", "l", "o", "a", "d">>
n_scan_pdf == <<"s", "c", "a", "n", ".", "p", "d", "f">>
n_cat_zzz == <<"貓", " ", "1", ".", "z", "z", "z">>


\* the paths from_file is called with, and what is on disk at each
p_image == <<n_examples, n_images, n_image_jpg>>
p_report == <<n_a, n_b, n_report_pdf>>
RegularFiles == {p_image, p_report, <<n_a_txt>>, <<n_README>>, <<n_bashrc>>,
                 <<n_data_zzz>>, <<n_M_PDF>>, <<n_log_bad>>}
Directories == {<<n_examples>>, <<n_examples, ParentDir>>, <<RootDir>>}
Missing == {<<n_nope_png>>}
Denied == {<<n_secret_txt>>}
Paths == RegularFiles \cup Directories \cup Missing \cup Denied

FsKind(path) == CASE path \in RegularFiles -> "file"
                  [] path \in Directories -> "dir"
                  [] path \in Denied -> "denied"
                  [] OTHER -> "missing"

\* the size each regular file starts with
InitSize(path) == Len(path[Len(path)]) % (MaxSize + 1)

\* the file_name arguments: None, Some(""), and names with and without
\* reserved and non-ASCII characters
FileNames == {None, Some(n_empty), Some(n_x_pdf), Some(n_photo_png), Some(n_tricky)}
\* the content_type arguments (Mime values, by their text)
ContentTypes == {None, Some("image/png"), Some("text/plain")}
Bytes == {0, 255}
Buffers == UNION {[1..n -> Bytes] : n \in 0..MaxLen}
\* the content_length arguments of from_reader
ContentLengths == {None} \cup {Some(n) : n \in 0..MaxLen} \cup {Some(12)}
\* what a TempFile handle reports: name(), content_type(), len().  The handle
\* is taken by its interface (Option<&str>, Option<&ContentType>, u64): names
\* with a dot and non-ASCII names are kept so that every branch respond_to has
\* for them is exercised.
HandleNames == {None, Some(n_empty), Some(n_upload), Some(n_scan_pdf), Some(n_cat_zzz)}
HandleTypes == {None, Some("image/jpeg")}
HandleLens == 0..MaxLen

(* ------------------------------ payloads ------------------------------- *)

\* RawResponsePro { file_name, content_type, data }, the fields of every
\* RawResponseData variant side by side
NoPayload ==
    [variant |-> "none", file_name |-> None, content_type |-> None, data |-> <<>>,
     content_length |-> None, path |-> <<>>, handle_name |-> None,
     handle_type |-> None, handle_len |-> 0]

from_slice(data, file_name, content_type) ==
    [NoPayload EXCEPT !.variant = "Slice", !.file_name = file_name,
                      !.content_type = content_type, !.data = data]

from_vec(vec, file_name, content_type) ==
    [NoPayload EXCEPT !.variant = "Vec", !.file_name = file_name,
                      !.content_type = content_type, !.data = vec]

from_reader(reader, file_name, content_type, content_length) ==
    [NoPayload EXCEPT !.variant = "Reader", !.file_name = file_name,
                      !.content_type = content_type, !.data = reader,
                      !.content_length = content_length]

\* AsyncFile::open(path): what the operating system may answer.  Opening a
\* directory read-only succeeds on Unix and is refused on Windows.
open_outcomes(path) == CASE FsKind(path) = "file" -> {"Ok"}
                         [] FsKind(path) = "dir" -> {"Ok", "PermissionDenied"}
                         [] FsKind(path) = "denied" -> {"PermissionDenied"}
                         [] OTHER -> {"NotFound"}

\* from_file refusing what is not a regular file with InvalidInput
M_from_file_regular_file_test(path, file_name, content_type, opened) ==
    IF opened # "Ok" THEN <<opened, NoPayload>>
    ELSE IF FsKind(path) # "file" THEN <<"InvalidInput", NoPayload>>
    ELSE <<"Ok", [NoPayload EXCEPT !.variant = "File", !.file_name = file_name,
                                   !.content_type = content_type, !.path = path]>>

\* from_file building the payload whatever the open returned
M_from_file_ignores_open_error(path, file_name, content_type, opened) ==
    <<opened, [NoPayload EXCEPT !.variant = "File", !.file_name = file_name,
                                !.content_type = content_type, !.path = path]>>

\* from_file after the open: `?` returns the open error as it is, otherwise
\* the payload is built.  <<result, payload>>
from_file(path, file_name, content_type, opened) ==
    IF opened # "Ok" THEN <<opened, NoPayload>>
    ELSE <<"Ok", [NoPayload EXCEPT !.variant = "File", !.file_name = file_name,
                                   !.content_type = content_type, !.path = path]>>

from_temp_file(handle_name, handle_type, handle_len, file_name, content_type) ==
    [NoPayload EXCEPT !.variant = "TempFile", !.file_name = file_name,
                      !.content_type = content_type, !.handle_name = handle_name,
                      !.handle_type = handle_type, !.handle_len = handle_len]

(* ------------------------------ responses ------------------------------ *)

\* what respond_to returns: Err(status), or Ok(response) with the three headers
\* it may set and the body it hands over (sized with Some(n) or None, or
\* streamed)
NoResp ==
    [status |-> "none", disposition |-> None, content_type |-> None,
     content_length |-> None, body_kind |-> "none", body_size |-> None]

\* Response::build()
Build == [NoResp EXCEPT !.status = "Ok"]

\* response.sized_body(size, body)
sized_body(res, size) == [res EXCEPT !.body_kind = "sized", !.body_size = size]

\* response.streamed_body(body)
streamed_body(res) == [res EXCEPT !.body_kind = "streamed", !.body_size = None]

InlineWithName(name) == "inline; filename*=UTF-8''" \o encode_component(name)
AttachmentWithName(name) == "attachment; filename*=UTF-8''" \o encode_component(name)

\* file_name! without the is_empty test
M_file_name_macro_no_empty_test(s, res) ==
    IF IsSome(s.file_name)
    THEN [res EXCEPT !.disposition = Some(InlineWithName(Unwrap(s.file_name)))]
    ELSE res

\* file_name! with a final else that sets bare inline
M_file_name_macro_else_inline(s, res) ==
    IF IsSome(s.file_name)
    THEN IF Unwrap(s.file_name) = <<>>
         THEN [res EXCEPT !.disposition = Some("inline")]
         ELSE [res EXCEPT !.disposition = Some(InlineWithName(Unwrap(s.file_name)))]
    ELSE [res EXCEPT !.disposition = Some("inline")]

\* macro file_name!
file_name_macro(s, res) ==
    IF IsSome(s.file_name)
    THEN IF Unwrap(s.file_name) = <<>>
         THEN [res EXCEPT !.disposition = Some("inline")]
         ELSE [res EXCEPT !.disposition = Some(InlineWithName(Unwrap(s.file_name)))]
    ELSE res

\* macro content_type!
content_type_macro(s, res) ==
    IF IsSome(s.content_type)
    THEN [res EXCEPT !.content_type = Some(Unwrap(s.content_type))]
    ELSE res

\* respond_to, Slice branch
respond_slice(s) ==
    sized_body(content_type_macro(s, file_name_macro(s, Build)), Some(Len(s.data)))

\* the Vec branch handing the buffer over without its length
M_respond_vec_unsized(s) ==
    sized_body(content_type_macro(s, file_name_macro(s, Build)), None)

\* respond_to, Vec branch
respond_vec(s) ==
    sized_body(content_type_macro(s, file_name_macro(s, Build)), Some(Len(s.data)))

\* the Reader branch falling back on the length of the data when no
\* content_length was given
M_reader_content_length_from_data(s, res) ==
    IF IsSome(s.content_length)
    THEN [res EXCEPT !.content_length = Some(to_string(Unwrap(s.content_length)))]
    ELSE [res EXCEPT !.content_length = Some(to_string(Len(s.data)))]

\* respond_to, Reader branch: the Content-Length header
reader_content_length(s, res) ==
    IF IsSome(s.content_length)
    THEN [res EXCEPT !.content_length = Some(to_string(Unwrap(s.content_length)))]
    ELSE res

\* respond_to, Reader branch
respond_reader(s) ==
    streamed_body(reader_content_length(s,
        content_type_macro(s, file_name_macro(s, Build))))

\* respond_to, File branch: Content-Disposition
disposition_file(s, res) ==
    IF IsSome(s.file_name)
    THEN IF Unwrap(s.file_name) = <<>>
         THEN [res EXCEPT !.disposition = Some("inline")]
         ELSE [res EXCEPT !.disposition = Some(InlineWithName(Unwrap(s.file_name)))]
    ELSE IF IsSome(file_name_of(s.path))
         THEN [res EXCEPT !.disposition =
                   Some(InlineWithName(to_string_lossy(Unwrap(file_name_of(s.path)))))]
         ELSE [res EXCEPT !.disposition = Some("inline")]

\* the File branch guessing from the explicit file_name's extension first
M_content_type_file_from_file_name(s, res) ==
    IF IsSome(s.content_type)
    THEN [res EXCEPT !.content_type = Some(Unwrap(s.content_type))]
    ELSE IF IsSome(s.file_name) /\ IsSome(extension(s.file_name))
         THEN [res EXCEPT !.content_type =
                   Some(from_ext_first_or_octet_stream(Unwrap(extension(s.file_name))))]
         ELSE IF IsSome(extension(s.path)) /\ IsSome(to_str(Unwrap(extension(s.path))))
              THEN [res EXCEPT !.content_type =
                        Some(from_ext_first_or_octet_stream(Unwrap(extension(s.path))))]
              ELSE res

\* the File branch falling back on application/octet-stream when the path
\* has no extension
M_content_type_file_octet_fallback(s, res) ==
    IF IsSome(s.content_type)
    THEN [res EXCEPT !.content_type = Some(Unwrap(s.content_type))]
    ELSE IF IsSome(extension(s.path)) /\ IsSome(to_str(Unwrap(extension(s.path))))
         THEN [res EXCEPT !.content_type =
                   Some(from_ext_first_or_octet_stream(Unwrap(extension(s.path))))]
         ELSE [res EXCEPT !.content_type = Some(OctetStream)]

\* respond_to, File branch: Content-Type
content_type_file(s, res) ==
    IF IsSome(s.content_type)
    THEN [res EXCEPT !.content_type = Some(Unwrap(s.content_type))]
    ELSE IF IsSome(extension(s.path))
         THEN IF IsSome(to_str(Unwrap(extension(s.path))))
              THEN [res EXCEPT !.content_type =
                        Some(from_ext_first_or_octet_stream(
                                 Unwrap(to_str(Unwrap(extension(s.path))))))]
              ELSE res
         ELSE res

\* the File branch declaring the size the file had when it was opened
M_respond_file_size_at_open(s) ==
    sized_body(content_type_file(s, disposition_file(s, Build)), openSize)

\* respond_to, File branch
respond_file(s) ==
    sized_body(content_type_file(s, disposition_file(s, Build)), None)

\* the TempFile branch using inline for the handle's name too
M_disposition_temp_file_inline(s, res) ==
    IF IsSome(s.file_name)
    THEN IF Unwrap(s.file_name) = <<>>
         THEN [res EXCEPT !.disposition = Some("inline")]
         ELSE [res EXCEPT !.disposition = Some(InlineWithName(Unwrap(s.file_name)))]
    ELSE IF IsSome(s.handle_name) /\ Unwrap(s.handle_name) # <<>>
         THEN [res EXCEPT !.disposition = Some(InlineWithName(Unwrap(s.handle_name)))]
         ELSE [res EXCEPT !.disposition = Some("inline")]

\* respond_to, TempFile branch: Content-Disposition
disposition_temp_file(s, res) ==
    IF IsSome(s.file_name)
    THEN IF Unwrap(s.file_name) = <<>>
         THEN [res EXCEPT !.disposition = Some("inline")]
         ELSE [res EXCEPT !.disposition = Some(InlineWithName(Unwrap(s.file_name)))]
    ELSE IF IsSome(s.handle_name)
         THEN IF Unwrap(s.handle_name) = <<>>
              THEN [res EXCEPT !.disposition = Some("inline")]
              ELSE [res EXCEPT !.disposition =
                        Some(AttachmentWithName(Unwrap(s.handle_name)))]
         ELSE [res EXCEPT !.disposition = Some("inline")]

\* file.name().map(Path::new).and_then(Path::extension)
handle_extension(s) ==
    IF IsSome(s.handle_name) THEN extension(<<Unwrap(s.handle_name)>>) ELSE None

\* respond_to, TempFile branch: Content-Type
content_type_temp_file(s, res) ==
    IF IsSome(s.content_type)
    THEN [res EXCEPT !.content_type = Some(Unwrap(s.content_type))]
    ELSE IF IsSome(s.handle_type)
         THEN [res EXCEPT !.content_type = Some(Unwrap(s.handle_type))]
         ELSE IF IsSome(handle_extension(s))
              THEN IF IsSome(to_str(Unwrap(handle_extension(s))))
                   THEN [res EXCEPT !.content_type =
                             Some(from_ext_first_or_octet_stream(
                                      Unwrap(to_str(Unwrap(handle_extension(s))))))]
                   ELSE res
              ELSE res

\* respond_to, TempFile branch: Content-Length from file.len()
temp_file_content_length(s, res) ==
    [res EXCEPT !.content_length = Some(to_string(s.handle_len))]

\* respond_to, TempFile branch; TempFileAsyncReader::from(file) may fail, and
\* `?` then returns Err(Status::InternalServerError) in place of a response
respond_temp_file(s, adapter_ok) ==
    IF adapter_ok
    THEN streamed_body(temp_file_content_length(s,
             content_type_temp_file(s, disposition_temp_file(s, Build))))
    ELSE [NoResp EXCEPT !.status = "InternalServerError"]

\* Responder::respond_to
respond_to(s, adapter_ok) ==
    CASE s.variant = "Slice" -> respond_slice(s)
      [] s.variant = "Vec" -> respond_vec(s)
      [] s.variant = "Reader" -> respond_reader(s)
      [] s.variant = "File" -> respond_file(s)
      [] s.variant = "TempFile" -> respond_temp_file(s, adapter_ok)

(* ------------------------- host write-out ------------------------------ *)

\* what the host framework puts on the wire for an Ok response
NoWire == [sent |-> FALSE, content_length |-> None, framing |-> "none"]

\* the size a seek to the end of the body finds when the response is written
\* out: the current size of a regular file; a directory handle has no
\* dependable size
seek_outcomes(s, sizes) ==
    IF s.variant = "File"
    THEN IF FsKind(s.path) = "file" THEN {Some(sizes[s.path])}
         ELSE {None} \cup {Some(n) : n \in 0..MaxSize}
    ELSE {None}

\* a sized body is framed by its declared size, or by the size found by
\* seeking when none was declared; a streamed body keeps the headers as set
write_out(res, seek) ==
    LET size == IF IsSome(res.body_size) THEN res.body_size ELSE seek
    IN IF res.body_kind = "sized" /\ IsSome(size)
       THEN [sent |-> TRUE, content_length |-> Some(to_string(Unwrap(size))),
             framing |-> "sized"]
       ELSE [sent |-> TRUE, content_length |-> res.content_length,
             framing |-> "streamed"]

\* examples/view_image.rs: the route's map_err
view_map_err(kind) == IF kind = "NotFound" THEN "NotFound" ELSE "InternalServerError"

(* ------------------------------ the system ------------------------------ *)

NoReq == [op |-> "none", path |-> <<>>, opened |-> "none"]

Init ==
    /\ pc = "start"
    /\ req = NoReq
    /\ result = "none"
    /\ payload = NoPayload
    /\ fsSize = [p \in RegularFiles |-> InitSize(p)]
    /\ openSize = None
    /\ resp = NoResp
    /\ wire = NoWire
    /\ httpStatus = None

Constructed(op, p) ==
    /\ pc' = "constructed"
    /\ req' = [op |-> op, path |-> <<>>, opened |-> "none"]
    /\ result' = "Ok"
    /\ payload' = p
    /\ UNCHANGED <<fsSize, openSize, resp, wire, httpStatus>>

FromSlice ==
    /\ pc = "start"
    /\ \E data \in Buffers, file_name \in FileNames, content_type \in ContentTypes :
           Constructed("from_slice", from_slice(data, file_name, content_type))

FromVec ==
    /\ pc = "start"
    /\ \E vec \in Buffers, file_name \in FileNames, content_type \in ContentTypes :
           Constructed("from_vec", from_vec(vec, file_name, content_type))

FromReader ==
    /\ pc = "start"
    /\ \E reader \in Buffers, file_name \in FileNames, content_type \in ContentTypes,
          content_length \in ContentLengths :
           Constructed("from_reader",
                       from_reader(reader, file_name, content_type, content_length))

FromTempFile ==
    /\ pc = "start"
    /\ \E handle_name \in HandleNames, handle_type \in HandleTypes,
          handle_len \in HandleLens, file_name \in FileNames,
          content_type \in ContentTypes :
           Constructed("from_temp_file",
                       from_temp_file(handle_name, handle_type, handle_len,
                                      file_name, content_type))

\* from_file: one open; an error goes back to the caller and no payload exists.
\* openSize remembers the size on disk at the open, for reference only: the
\* payload does not hold it.
FromFile ==
    /\ pc = "start"
    /\ \E path \in Paths, file_name \in FileNames, content_type \in ContentTypes :
         \E opened \in open_outcomes(path) :
           LET r == from_file(path, file_name, content_type, opened)
           IN /\ req' = [op |-> "from_file", path |-> path, opened |-> opened]
              /\ result' = r[1]
              /\ payload' = r[2]
              /\ pc' = IF r[1] = "Ok" THEN "constructed" ELSE "failed"
              /\ openSize' = IF opened = "Ok" /\ FsKind(path) = "file"
                             THEN Some(fsSize[path]) ELSE None
    /\ UNCHANGED <<fsSize, resp, wire, httpStatus>>

\* the caller of a failed from_file turns the error into a status
ViewMapErr ==
    /\ pc = "failed"
    /\ pc' = "rejected"
    /\ httpStatus' = Some(view_map_err(result))
    /\ UNCHANGED <<req, result, payload, fsSize, openSize, resp, wire>>

\* another process changes the size of the file the payload holds open
FsChange ==
    /\ pc \in {"constructed", "responded"}
    /\ payload.variant = "File"
    /\ FsKind(payload.path) = "file"
    /\ \E n \in 0..MaxSize :
         /\ n # fsSize[payload.path]
         /\ fsSize' = [fsSize EXCEPT ![payload.path] = n]
    /\ UNCHANGED <<pc, req, result, payload, openSize, resp, wire, httpStatus>>

\* the host calls respond_to on the payload the route returned; the payload
\* is consumed (the variable keeps its value for reference)
RespondTo ==
    /\ pc = "constructed"
    /\ \E adapter_ok \in (IF payload.variant = "TempFile" THEN BOOLEAN ELSE {TRUE}) :
         resp' = respond_to(payload, adapter_ok)
    /\ pc' = "responded"
    /\ UNCHANGED <<req, result, payload, fsSize, openSize, wire, httpStatus>>

\* the host writes the response out
WriteOut ==
    /\ pc = "responded"
    /\ IF resp.status = "Ok"
       THEN /\ \E seek \in seek_outcomes(payload, fsSize) : wire' = write_out(resp, seek)
            /\ UNCHANGED httpStatus
       ELSE /\ httpStatus' = Some(resp.status)
            /\ UNCHANGED wire
    /\ pc' = "sent"
    /\ UNCHANGED <<req, result, payload, fsSize, openSize, resp>>

Next ==
    \/ FromSlice
    \/ FromVec
    \/ FromReader
    \/ FromFile
    \/ FromTempFile
    \/ ViewMapErr
    \/ FsChange
    \/ RespondTo
    \/ WriteOut

Spec == Init /\ [][Next]_vars

(* ------------------------------ properties ------------------------------ *)

\* respond_to has returned Ok(response)
Emitted == pc \in {"responded", "sent"} /\ resp.status = "Ok"

InMemoryOrStream == {"Slice", "Vec", "Reader"}

\* the percent-encoded form of each name of the fixture, written out
ExpectedEncoding(name) ==
    CASE name = n_x_pdf -> "x.pdf"
      [] name = n_photo_png -> "photo.png"
      [] name = n_tricky -> "a%20b%3B%E8%B2%93%25%2Fc"
      [] name = n_upload -> "upload"
      [] name = n_scan_pdf -> "scan.pdf"
      [] name = n_cat_zzz -> "%E8%B2%93%201.zzz"
      [] name = n_image_jpg -> "image(%E8%B2%93).jpg"
      [] name = n_report_pdf -> "report.pdf"
      [] name = n_a_txt -> "a.txt"
      [] name = n_README -> "README"
      [] name = n_bashrc -> ".bashrc"
      [] name = n_data_zzz -> "data.zzz"
      [] name = n_M_PDF -> "M.PDF"
      [] name = n_log_bad -> "log.%EF%BF%BD"
      [] name = n_examples -> "examples"

\* the payload has no name of its own: no final path component, or a handle
\* with no name or an empty one
NoIntrinsicName(s) ==
    \/ s.variant \in InMemoryOrStream
    \/ s.variant = "File" /\ s.path \in {<<RootDir>>, <<n_examples, ParentDir>>}
    \/ s.variant = "TempFile" /\ s.handle_name \in {None, Some(n_empty)}

\* the type each path's extension maps to, written out; None where the path
\* has no extension that is UTF-8 text
PathType(path) ==
    CASE path = p_image -> Some("image/jpeg")
      [] path = p_report -> Some("application/pdf")
      [] path = <<n_a_txt>> -> Some("text/plain")
      [] path = <<n_M_PDF>> -> Some("application/pdf")
      [] path = <<n_data_zzz>> -> Some("application/octet-stream")
      [] OTHER -> None

\* the type a handle's name maps to, written out
HandleNameType(handle_name) ==
    CASE handle_name = Some(n_scan_pdf) -> Some("application/pdf")
      [] handle_name = Some(n_cat_zzz) -> Some("application/octet-stream")
      [] OTHER -> None

\* the Content-Type of a payload built without a content_type: a function of
\* the variant, the path and the handle alone
IntrinsicType(s) ==
    CASE s.variant \in InMemoryOrStream -> None
      [] s.variant = "File" -> PathType(s.path)
      [] s.variant = "TempFile" ->
            IF IsSome(s.handle_type) THEN s.handle_type
            ELSE HandleNameType(s.handle_name)

\* C1: whatever the variant and the content type, a payload built with
\* file_name = Some("") is emitted with Content-Disposition exactly `inline`,
\* also when the path or the upload handle has a name of its own.
C1_EmptyNameBareInline ==
    (Emitted /\ payload.file_name = Some(n_empty))
        => resp.disposition = Some("inline")

C1_Witness ==
    /\ Emitted
    /\ payload.variant = "TempFile"
    /\ payload.file_name = Some(n_empty)
    /\ payload.handle_name = Some(n_upload)
    /\ payload.content_type = Some("image/png")
    /\ resp.disposition = Some("inline")

\* C2 as stated: with file_name = None and no name of its own, every payload
\* is emitted with Content-Disposition `inline`.
C2_Original ==
    (Emitted /\ payload.file_name = None /\ NoIntrinsicName(payload))
        => resp.disposition = Some("inline")

\* C2 amended: with file_name = None and no name of its own, a File or
\* TempFile payload is emitted with Content-Disposition `inline`, and a Slice,
\* Vec or Reader payload is emitted with no Content-Disposition header.
C2_BareInlineOnlyForFiles ==
    (Emitted /\ payload.file_name = None /\ NoIntrinsicName(payload))
        => resp.disposition =
               IF payload.variant \in {"File", "TempFile"} THEN Some("inline") ELSE None

C2_Witness ==
    /\ Emitted
    /\ payload.variant = "Vec"
    /\ payload.file_name = None
    /\ resp.disposition = None

\* C3: with file_name = None, a TempFile whose handle has a non-empty name is
\* emitted as `attachment; filename*=UTF-8''<encoded name>` and a File as
\* `inline; filename*=UTF-8''<encoded final path component>`; a non-empty
\* file_name wins for every variant and is emitted as `inline; ...`.
C3_DispositionByOrigin ==
    Emitted =>
        /\ (/\ payload.variant = "TempFile"
            /\ payload.file_name = None
            /\ IsSome(payload.handle_name)
            /\ payload.handle_name # Some(n_empty))
               => resp.disposition =
                      Some("attachment; filename*=UTF-8''"
                           \o ExpectedEncoding(Unwrap(payload.handle_name)))
        /\ (/\ payload.variant = "File"
            /\ payload.file_name = None
            /\ ~NoIntrinsicName(payload))
               => resp.disposition =
                      Some("inline; filename*=UTF-8''"
                           \o ExpectedEncoding(payload.path[Len(payload.path)]))
        /\ (IsSome(payload.file_name) /\ payload.file_name # Some(n_empty))
               => resp.disposition =
                      Some("inline; filename*=UTF-8''"
                           \o ExpectedEncoding(Unwrap(payload.file_name)))

C3_Witness ==
    /\ Emitted
    /\ payload.variant = "TempFile"
    /\ payload.file_name = None
    /\ payload.handle_name = Some(n_upload)
    /\ resp.disposition = Some("attachment; filename*=UTF-8''upload")

\* C4 as stated: without a content_type, a non-empty file_name with an
\* extension decides the Content-Type, for every variant.
C4_Original ==
    (Emitted /\ payload.content_type = None)
        => /\ payload.file_name = Some(n_x_pdf)
                => resp.content_type = Some("application/pdf")
           /\ payload.file_name = Some(n_photo_png)
                => resp.content_type = Some("image/png")

\* C4 amended: without a content_type the file_name is never consulted: a
\* File takes the type of its path's extension, a TempFile the type its
\* handle declares or else that of the handle name's extension, and a Slice,
\* Vec or Reader gets no Content-Type, whatever the file_name is.
C4_FileNameNeverDecidesType ==
    (Emitted /\ payload.content_type = None)
        => resp.content_type = IntrinsicType(payload)

C4_Witness ==
    /\ Emitted
    /\ payload.variant = "File"
    /\ payload.path = <<n_a_txt>>
    /\ payload.file_name = Some(n_photo_png)
    /\ payload.content_type = None
    /\ resp.content_type = Some("text/plain")

\* C5 as stated: a File or TempFile without a content_type whose path or
\* name has no extension (README, .bashrc, upload, no name) or an unmapped
\* one (data.zzz) is still emitted with Content-Type
\* application/octet-stream.
C5_Original ==
    (/\ Emitted
     /\ payload.content_type = None
     /\ \/ /\ payload.variant = "File"
           /\ payload.path \in {<<n_README>>, <<n_bashrc>>, <<n_data_zzz>>}
        \/ /\ payload.variant = "TempFile"
           /\ payload.handle_name \in {None, Some(n_empty), Some(n_upload)})
        => resp.content_type = Some("application/octet-stream")

\* C5 amended: the content_type given wins; then, for a TempFile, the type
\* the handle declares; then the guess from the extension, which is
\* application/octet-stream for an unmapped one.  With none of these (no
\* extension that is UTF-8 text, no declared type) a File or TempFile is
\* emitted with no Content-Type, like a Slice, Vec or Reader.
C5_TypePriority ==
    Emitted =>
        /\ IsSome(payload.content_type) => resp.content_type = payload.content_type
        /\ (payload.content_type = None /\ IsSome(payload.handle_type))
               => resp.content_type = payload.handle_type
        /\ (/\ payload.content_type = None
            /\ payload.handle_type = None
            /\ \/ payload.path = <<n_data_zzz>>
               \/ payload.handle_name = Some(n_cat_zzz))
               => resp.content_type = Some("application/octet-stream")
        /\ resp.content_type = None
               <=> /\ payload.content_type = None
                   /\ payload.handle_type = None
                   /\ PathType(payload.path) = None
                   /\ HandleNameType(payload.handle_name) = None

C5_Witness ==
    /\ Emitted
    /\ payload.variant = "File"
    /\ payload.path = <<n_README>>
    /\ payload.content_type = None
    /\ resp.content_type = None

\* C6 as stated: from_file on a directory fails with InvalidInput and gives
\* no payload.
C6_Original ==
    (req.op = "from_file" /\ FsKind(req.path) = "dir")
        => (result = "InvalidInput" /\ payload = NoPayload)

\* C6 amended: from_file makes no test of its own on a directory: it returns
\* what the open returned, a File payload for that path when the open
\* succeeded and otherwise the open's error and no payload; never InvalidInput.
C6_DirectoryFollowsOpen ==
    (req.op = "from_file" /\ FsKind(req.path) = "dir")
        => /\ result = req.opened
           /\ result # "InvalidInput"
           /\ IF result = "Ok"
              THEN payload.variant = "File" /\ payload.path = req.path
              ELSE payload = NoPayload

C6_Witness ==
    /\ req.op = "from_file"
    /\ req.path = <<n_examples>>
    /\ result = "Ok"
    /\ payload.variant = "File"
    /\ Emitted
    /\ resp.disposition = Some("inline; filename*=UTF-8''examples")

\* C7: from_file on a path that does not exist fails with NotFound, and after
\* any failure of from_file there is no payload, no response and nothing on
\* the wire; the caller maps NotFound and the other kinds to its own statuses.
C7_FailureBeforeEmission ==
    /\ (req.op = "from_file" /\ FsKind(req.path) = "missing") => result = "NotFound"
    /\ result \notin {"none", "Ok"}
           => /\ pc \in {"failed", "rejected"}
              /\ payload = NoPayload
              /\ resp = NoResp
              /\ wire = NoWire
    /\ pc = "rejected"
           => httpStatus = IF result = "NotFound" THEN Some("NotFound")
                           ELSE Some("InternalServerError")

C7_Witness ==
    /\ pc = "rejected"
    /\ req.path = <<n_nope_png>>
    /\ result = "NotFound"
    /\ payload = NoPayload
    /\ httpStatus = Some("NotFound")

C9_ReaderLength ==
    (Emitted /\ payload.variant = "Reader")
        => /\ resp.body_kind = "streamed"
           /\ resp.body_size = None
           /\ payload.content_length = None <=> resp.content_length = None
           /\ payload.content_length = Some(0) => resp.content_length = Some("0")
           /\ payload.content_length = Some(1) => resp.content_length = Some("1")
           /\ payload.content_length = Some(2) => resp.content_length = Some("2")
           /\ payload.content_length = Some(12) => resp.content_length = Some("12")
           /\ IsSome(payload.content_length)
                  => resp.content_length = Some(to_string(Unwrap(payload.content_length)))

C9_Witness ==
    /\ Emitted
    /\ payload.variant = "Reader"
    /\ payload.content_length = None
    /\ Len(payload.data) = MaxLen
    /\ resp.content_length = None
    /\ resp.body_kind = "streamed"

\* C10: a Slice or Vec payload, the empty one included, is handed over as a
\* sized body whose declared length is the number of bytes of the buffer.
C10_BufferLength ==
    (Emitted /\ payload.variant \in {"Slice", "Vec"})
        => /\ resp.body_kind = "sized"
           /\ resp.body_size = Some(Len(payload.data))
           /\ payload.data = <<>> => resp.body_size = Some(0)
           /\ payload.data \in [1..2 -> Bytes] => resp.body_size = Some(2)

C10_Witness ==
    /\ Emitted
    /\ payload.variant = "Vec"
    /\ payload.data = <<>>
    /\ payload.file_name = Some(n_tricky)
    /\ resp.body_kind = "sized"
    /\ resp.body_size = Some(0)

====
